---- MODULE Spec2Model ----
(***************************************************************************)
(* YehudaSH, the interactive shell of YehudaOS (src/usermode/shell.c), and *)
(* the helper routines it is built on (src/usermode/yehuda-os/helpers.c,   *)
(* src/usermode/yehuda-os/sys.c).                                          *)
(*                                                                         *)
(* Characters are their ASCII codes, a C string is a sequence of codes     *)
(* that holds its terminator, and C index i is TLA+ index i + 1.  A        *)
(* pointer is the index of a block of `heap`; NULL is 0.  The kernel is    *)
(* outside the source: each kernel call returns one of the results its     *)
(* documentation in sys.c allows, chosen nondeterministically.             *)
(*                                                                         *)
(* Spec is the shell, UtilSpec the file utilities, MpSpec the              *)
(* multiprocessing program, and GateSpec the two syscall gateways.         *)
(***************************************************************************)
EXTENDS Integers, Sequences, FiniteSets

VARIABLES
    pc,            \* the shell's position in main / handle_command
    heap,          \* the blocks allocated in the current iteration of main
    out,           \* what was handed to write(STDOUT, ...): up to the return
                   \* of getline by the prompt and getline, after it by the
                   \* command
    ret,           \* the value handle_command returned (TRUE until it returns)
    failedAt,      \* which call made handle_command fail ("none" when none did)
    command,       \* handle_command: char* command
    command_args,  \* handle_command: char** command_args
    gl,            \* getline's locals: bytes_read, current, len, buffer
    typed,         \* the bytes read() delivered to the running getline call
    zeroRead,      \* a read() of the running getline call returned 0 bytes
    corrupt,       \* a store went outside every live block
    executable,    \* the result of is_executable(command_args[0])
    nullStr,       \* what a read through the NULL pointer yielded
    pid,           \* handle_executable: pid_t pid
    children,      \* the processes exec created that have not been waited for
    execLog,       \* the exec calls of the current iteration
    waitLog,       \* the waitpid calls of the current iteration
    chdirLog,      \* the chdir calls of the current iteration
    ignored,       \* the calls of the current iteration that returned their
                   \* failure value to a caller that did not look at it
    prog,          \* the file utility that runs ("none" when none does)
    argc,          \* the utility's main: int argc
    argv1,         \* the utility's main: the string argv[1], <<>> when NULL
    calls,         \* the kernel calls the utility made: name and argument
    uout,          \* what the utility handed to print_str and print_newline
    status,        \* what the utility's main returned
    mp_pc,         \* multiprocessing: the position in main
    mp_i,          \* multiprocessing: the loop counter i
    pids,          \* multiprocessing: pid_t pids[NUM_OF_PROCESSES]
    args1,         \* multiprocessing: the character args[1][0]
    alive,         \* multiprocessing: the children that run
    mp_execLog,    \* multiprocessing: the exec calls, result and argument
    mp_waitLog,    \* multiprocessing: the waitpid calls, pid and result
    mp_out,        \* multiprocessing: what was handed to print_str
    mp_ret,        \* multiprocessing: what main returned (-1 until it does)
    g_op,          \* gateways: the operation called ("none" when none is)
    g_call,        \* gateways: its operation code and six arguments
    g_sys,         \* gateways: the registers at the syscall of sys.c
    g_old          \* gateways: the registers at the syscall of yehuda-os.c

shellVars == <<pc, heap, out, ret, failedAt, command, command_args, gl, typed,
               zeroRead, corrupt, executable, nullStr, pid, children, execLog,
               waitLog, chdirLog, ignored>>

utilVars == <<prog, argc, argv1, calls, uout, status>>

mpVars == <<mp_pc, mp_i, pids, args1, alive, mp_execLog, mp_waitLog, mp_out,
            mp_ret>>

gateVars == <<g_op, g_call, g_sys, g_old>>

vars == <<pc, heap, out, ret, failedAt, command, command_args, gl, typed,
          zeroRead, corrupt, executable, nullStr, pid, children, execLog,
          waitLog, chdirLog, ignored, prog, argc, argv1, calls, uout, status,
          mp_pc, mp_i, pids, args1, alive, mp_execLog, mp_waitLog, mp_out,
          mp_ret, g_op, g_call, g_sys, g_old>>

----------------------------------------------------------------------------
(* Bounds of the model *)

\* the most bytes other than the newline that one getline call is given
MaxTyped == 4

----------------------------------------------------------------------------
(* Program constants *)

NULL == 0
NUL == 0
BS == 8
NL == 10
SP == 32
DOT == 46
SLASH == 47
CH_c == 99
CH_d == 100
MINUS == 45
CH_0 == 48
MAX_INT_STRLEN == 11
CH_a == 97
NUM_OF_PROCESSES == 5
READ == 0
WRITE == 1
EXEC == 59

\* the content of a byte that was allocated and never stored to
Uninit == 256

\* the bytes the console delivers
InputBytes == {SP, DOT, SLASH, CH_c, CH_d, BS, NL}

\* the results of read(STDIN, buf, 1, 0): -1, or the number of bytes read
ReadResults == {-1, 0, 1}

\* the process identifiers exec returns on success, and the exit codes
Pids == {0, 5}
ExitCodes == {0, 3, -1, -1000000000, -2147483647 - 1}

\* the string get_current_dir_name returns when it succeeds
Cwd == <<SLASH, NUL>>

\* what the bytes at address 0 read as when the read does not fault
NullStrs == {<<NUL>>, <<SLASH, CH_c, NUL>>}

----------------------------------------------------------------------------
(* The heap: malloc, calloc, realloc, free *)

Block(kind, data) == [kind |-> kind, nfree |-> 0, data |-> data]

Fresh(n) == [i \in 1..n |-> Uninit]

Zeroed(n) == [i \in 1..n |-> NULL]

malloc(h, kind, size) == Append(h, Block(kind, Fresh(size)))

\* mutant of calloc: the block is not set to 0
calloc_dirty(h, kind, nitems) ==
    Append(h, Block(kind, [i \in 1..nitems |-> 1]))

calloc(h, kind, nitems) == Append(h, Block(kind, Zeroed(nitems)))

free(h, ptr) == IF ptr = NULL THEN h ELSE [h EXCEPT ![ptr].nfree = @ + 1]

\* realloc(ptr, size) when the kernel grants it: the block keeps its bytes
\* and the bytes added are not initialised
realloc(h, ptr, size) ==
    IF ptr = NULL
    THEN malloc(h, "line", size)
    ELSE [h EXCEPT ![ptr].data = @ \o Fresh(size - Len(@))]

\* the byte at C index i of a block; a read outside the block, like a read
\* of a byte never stored to, yields a value the program does not determine
Peek(data, i) == IF i + 1 \in DOMAIN data THEN data[i + 1] ELSE Uninit

Live(h) == {p \in DOMAIN h : h[p].nfree = 0}

----------------------------------------------------------------------------
(* What is written to STDOUT: a literal of the source, or a string *)

Lit(s) == [lit |-> s, str |-> <<>>]

Str(w) == [lit |-> "", str |-> w]

\* the characters of the C string at the start of `data`, terminator excluded
RECURSIVE CStrFrom(_, _)
CStrFrom(data, i) ==
    IF i > Len(data) \/ data[i] = NUL
    THEN <<>>
    ELSE <<data[i]>> \o CStrFrom(data, i + 1)

CStr(data) == CStrFrom(data, 1)

\* print_str(str): write(STDOUT, str, strlen(str), 0)
print_str(str) == Str(CStr(str))

----------------------------------------------------------------------------
(* main and handle_command up to the call of getline *)

Init ==
    /\ pc = "main"
    /\ heap = <<>>
    /\ out = <<>>
    /\ ret = TRUE
    /\ failedAt = "none"
    /\ command = NULL
    /\ command_args = NULL
    /\ gl = [bytes_read |-> 0, current |-> 0, len |-> 1, buffer |-> NULL]
    /\ typed = <<>>
    /\ zeroRead = FALSE
    /\ corrupt = FALSE
    /\ executable = FALSE
    /\ nullStr = <<NUL>>
    /\ pid = 0
    /\ children = {}
    /\ execLog = <<>>
    /\ waitLog = <<>>
    /\ chdirLog = <<>>
    /\ ignored = {}
    /\ prog = "none"
    /\ argc = 0
    /\ argv1 = <<>>
    /\ calls = <<>>
    /\ uout = <<>>
    /\ status = "none"
    /\ mp_pc = "create"
    /\ mp_i = 0
    /\ pids = [k \in 1..NUM_OF_PROCESSES |-> 0]
    /\ args1 = CH_a
    /\ alive = {}
    /\ mp_execLog = <<>>
    /\ mp_waitLog = <<>>
    /\ mp_out = <<>>
    /\ mp_ret = -1
    /\ g_op = "none"
    /\ g_call = [code |-> 0, args |-> <<0, 0, 0, 0, 0, 0>>]
    /\ g_sys = [rax |-> 0, rdi |-> 0, rsi |-> 0, rdx |-> 0, r10 |-> 0,
                r8 |-> 0, r9 |-> 0]
    /\ g_old = [rax |-> 0, rdi |-> 0, rsi |-> 0, rdx |-> 0, r10 |-> 0,
                r8 |-> 0, r9 |-> 0]

\* print_str, line 141, and getline, line 126: the result of write is
\* dropped; wOk tells whether every write call of the step returned 0
Ignore(wOk) == IF wOk THEN ignored ELSE ignored \cup {"write"}

\* the locals of a new call of handle_command, and the history of the
\* iteration that starts (blocks the previous iteration left allocated are
\* referred to by no variable and are dropped from `heap`)
NewIteration ==
    /\ command' = NULL
    /\ command_args' = NULL
    /\ gl' = [bytes_read |-> 0, current |-> 0, len |-> 1, buffer |-> NULL]
    /\ typed' = <<>>
    /\ zeroRead' = FALSE
    /\ executable' = FALSE
    /\ nullStr' = <<NUL>>
    /\ pid' = 0
    /\ execLog' = <<>>
    /\ waitLog' = <<>>
    /\ chdirLog' = <<>>

\* handle_command, lines 215-226: get_current_dir_name, the prompt, free(dir)
HcPrompt ==
    /\ pc = "main"
    /\ NewIteration
    /\ UNCHANGED <<corrupt, children>>
    /\ UNCHANGED <<utilVars, mpVars, gateVars>>
    /\ \E dirOk \in BOOLEAN, wOk \in BOOLEAN :
          /\ ~dirOk => wOk
          /\ ignored' = IF wOk THEN {} ELSE {"write"}
          /\ IF dirOk
             THEN /\ heap' = free(<<Block("dir", Cwd)>>, 1)
                  /\ out' = <<Lit("[YehudaSH] "), print_str(Cwd), Lit(" $ ")>>
                  /\ ret' = TRUE
                  /\ failedAt' = "none"
                  /\ pc' = "getline"
             ELSE /\ heap' = <<>>
                  /\ out' = <<>>
                  /\ ret' = FALSE
                  /\ failedAt' = "dir"
                  /\ pc' = "returned"

----------------------------------------------------------------------------
(* getline (helpers.c): one action is one iteration of its do-while loop *)

\* mutant of getline_grows: the buffer is grown in every iteration
getline_grows_always(g) == g.current <= g.len - 1

\* line 96: the buffer is grown before the read
getline_grows(g) == g.current = g.len - 1

\* lines 116-128: the cursor after a byte was read into buffer[current]
getline_cursor(current, byte) ==
    IF byte = BS
    THEN IF current > 0 THEN current - 1 ELSE current
    ELSE current + 1

\* mutant of getline_echo: a backspace is answered at cursor 0 as well
getline_echo_always(current, byte) ==
    IF byte = BS
    THEN <<print_str(<<BS, SP, BS, NUL>>)>>
    ELSE <<Str(<<byte>>)>>

\* lines 116-128: what is written to STDOUT for a byte read
getline_echo(current, byte) ==
    IF byte = BS
    THEN IF current > 0 THEN <<print_str(<<BS, SP, BS, NUL>>)>> ELSE <<>>
    ELSE <<Str(<<byte>>)>>

\* lines 130-131: the index of the byte the loop test inspects and the
\* terminator replaces; current is a size_t, so 0 - 1 is the byte before
\* the buffer
getline_index(current, bytes_read) == current - bytes_read

GetlineIter ==
    /\ pc = "getline"
    /\ \E growOk \in BOOLEAN, n \in ReadResults, byte \in InputBytes,
          probe \in BOOLEAN, wOk \in BOOLEAN :
        LET grow == getline_grows(gl)
            len1 == IF grow THEN gl.len * 2 ELSE gl.len
            h1 == IF grow THEN realloc(heap, gl.buffer, len1) ELSE heap
            buf == IF grow /\ gl.buffer = NULL THEN Len(heap) + 1
                   ELSE gl.buffer
            h2 == [h1 EXCEPT ![buf].data[gl.current + 1] = byte]
            cur == getline_cursor(gl.current, byte)
            idx == getline_index(IF n = 1 THEN cur ELSE gl.current, n)
            h3 == IF n = 1 THEN h2 ELSE h1
            undef == Peek(h3[buf].data, idx) = Uninit
            atNL == IF undef THEN probe ELSE Peek(h3[buf].data, idx) = NL
        IN
        /\ ~grow => growOk
        /\ (n # 1 \/ getline_echo(gl.current, byte) = <<>>) => wOk
        /\ ignored' = Ignore(wOk)
        /\ (grow /\ ~growOk) => (n = -1 /\ byte = NL /\ ~probe)
        /\ n # 1 => byte = NL
        /\ (n = 1 /\ byte # NL) => Len(typed) < MaxTyped
        /\ IF grow /\ ~growOk
           THEN \* lines 99-104: buffer = realloc(...) is NULL
                /\ heap' = heap
                /\ gl' = [gl EXCEPT !.len = len1, !.buffer = NULL]
                /\ command' = NULL
                /\ ret' = FALSE
                /\ failedAt' = "getline"
                /\ pc' = "returned"
                /\ UNCHANGED <<out, typed, zeroRead, corrupt>>
           ELSE IF n = -1
           THEN \* lines 108-113
                /\ ~probe
                /\ heap' = free(h1, buf)
                /\ gl' = [bytes_read |-> n, current |-> gl.current,
                          len |-> len1, buffer |-> buf]
                /\ command' = NULL
                /\ ret' = FALSE
                /\ failedAt' = "getline"
                /\ pc' = "returned"
                /\ UNCHANGED <<out, typed, zeroRead, corrupt>>
           ELSE /\ probe => undef
                /\ gl' = [bytes_read |-> n,
                          current |-> IF n = 1 THEN cur ELSE gl.current,
                          len |-> len1, buffer |-> buf]
                /\ out' = IF n = 1 THEN out \o getline_echo(gl.current, byte)
                          ELSE out
                /\ typed' = IF n = 1 THEN Append(typed, byte) ELSE typed
                /\ zeroRead' = IF n = 0 THEN TRUE ELSE zeroRead
                /\ IF atNL
                   THEN \* lines 131-133
                        /\ heap' = IF idx < 0 THEN h3
                                   ELSE [h3 EXCEPT ![buf].data[idx + 1] = NUL]
                        /\ corrupt' = IF idx < 0 THEN TRUE ELSE corrupt
                        /\ command' = buf
                        /\ pc' = "parse"
                   ELSE /\ heap' = h3
                        /\ corrupt' = corrupt
                        /\ command' = command
                        /\ pc' = "getline"
                /\ UNCHANGED <<ret, failedAt>>
    /\ UNCHANGED <<command_args, executable, nullStr, pid, children, execLog,
                   waitLog, chdirLog>>
    /\ UNCHANGED <<utilVars, mpVars, gateVars>>

----------------------------------------------------------------------------
(* count_words, parse_command (shell.c), strncpy, free_array (helpers.c) *)

RECURSIVE count_words_from(_, _, _, _)
count_words_from(str, i, in_word, count) ==
    IF Peek(str, i) = NUL
    THEN count
    ELSE IF Peek(str, i) = SP
    THEN count_words_from(str, i + 1, FALSE, count)
    ELSE IF ~in_word
    THEN count_words_from(str, i + 1, TRUE, count + 1)
    ELSE count_words_from(str, i + 1, in_word, count)

count_words(str) == count_words_from(str, 0, FALSE, 0)

\* mutant of strncpy: the last of the n bytes is not copied
strncpy_short(src, start, n) ==
    [k \in 1..n |-> IF k < n THEN Peek(src, start + k - 1) ELSE NUL]

\* mutant of strncpy: no byte of the source is copied
strncpy_none(src, start, n) == [k \in 1..n |-> NUL]

\* the n bytes strncpy(dest, src + start, n) stores to dest
strncpy(src, start, n) ==
    [k \in 1..n |->
        IF \A j \in 0..(k - 1) : Peek(src, start + j) # NUL
        THEN Peek(src, start + k - 1)
        ELSE NUL]

\* a store to C index i of block ptr
Store(h, ptr, i, v) ==
    IF i + 1 \in DOMAIN h[ptr].data
    THEN [h EXCEPT ![ptr].data[i + 1] = v]
    ELSE h

RECURSIVE free_array_from(_, _, _, _)
free_array_from(h, arr, size, i) ==
    IF i < size
    THEN free_array_from(Store(free(h, Peek(h[arr].data, i)), arr, i, NULL),
                         arr, size, i + 1)
    ELSE h

\* mutant of free_array: the last element is not freed
free_array_short(h, arr, size) == free_array_from(h, arr, size - 1, 0)

free_array(h, arr, size) == free_array_from(h, arr, size, 0)

\* lines 60-73 and 90-99: the word of word_len characters at `start` is
\* copied to a new block, whose address goes to words[count]; `ok` tells
\* whether the kernel grants the malloc
parse_word(st, cmd, ok) ==
    IF ok
    THEN LET p == Len(st.h) + 1
             h1 == malloc(st.h, "word", st.word_len + 1)
             h2 == [h1 EXCEPT ![p].data =
                       strncpy(cmd, st.start, st.word_len) \o <<NUL>>]
         IN [st EXCEPT !.h = Store(h2, st.words, st.count, p)]
    ELSE [st EXCEPT !.h = free(free_array(st.h, st.words, st.count), st.words),
                    !.words = NULL]

\* lines 54-86: the scan from `current`; failAt is the number, counted from
\* 1, of the malloc the kernel refuses
RECURSIVE parse_scan(_, _, _)
parse_scan(st, cmd, failAt) ==
    LET c == Peek(cmd, st.current) IN
    IF c = NUL
    THEN IF st.word_len > 0
         THEN parse_word(st, cmd, failAt # st.count + 1)
         ELSE st
    ELSE IF c = SP
    THEN IF st.in_word
         THEN LET st1 == parse_word(st, cmd, failAt # st.count + 1) IN
              IF st1.words = NULL
              THEN st1
              ELSE parse_scan([st1 EXCEPT !.count = @ + 1, !.word_len = 0,
                                          !.in_word = FALSE,
                                          !.current = @ + 1],
                              cmd, failAt)
         ELSE parse_scan([st EXCEPT !.current = @ + 1], cmd, failAt)
    ELSE parse_scan([st EXCEPT !.in_word = TRUE,
                               !.start = IF st.in_word THEN @ ELSE st.current,
                               !.word_len = @ + 1,
                               !.current = @ + 1],
                    cmd, failAt)

\* parse_command(cmd) on heap h: the heap it leaves and the pointer it
\* returns; failAt = 0 refuses the calloc, failAt = k the k-th malloc
parse_command(h, cmd, failAt) ==
    IF failAt = 0
    THEN [h |-> h, words |-> NULL]
    ELSE LET st == parse_scan([h |-> calloc(h, "array",
                                            count_words(cmd) + 1),
                               words |-> Len(h) + 1, current |-> 0,
                               in_word |-> FALSE, start |-> 0,
                               word_len |-> 0, count |-> 0],
                              cmd, failAt)
         IN [h |-> st.h, words |-> st.words]

\* handle_command, lines 235-238.  getline has returned: its locals are
\* gone, and the record of what it read and wrote ends here
HcParse ==
    /\ pc = "parse"
    /\ ~corrupt
    /\ \E failAt \in 0..(count_words(heap[command].data) + 1) :
          LET r == parse_command(heap, heap[command].data, failAt) IN
          /\ heap' = r.h
          /\ command_args' = r.words
          /\ IF r.words = NULL
             THEN /\ ret' = FALSE
                  /\ failedAt' = "parse"
                  /\ pc' = "returned"
             ELSE /\ ret' = ret
                  /\ failedAt' = failedAt
                  /\ pc' = "classify"
    /\ typed' = <<>>
    /\ zeroRead' = FALSE
    /\ out' = <<>>
    /\ gl' = [bytes_read |-> 0, current |-> 0, len |-> 1, buffer |-> NULL]
    /\ UNCHANGED <<command, corrupt, executable, nullStr, pid, children,
                   execLog, waitLog, chdirLog, ignored>>
    /\ UNCHANGED <<utilVars, mpVars, gateVars>>

\* the terminator of the line went to the byte before the buffer: the
\* allocator's own data is overwritten and the buffer holds no terminator,
\* so nothing the program does from here on is defined
Undefined ==
    /\ pc = "parse"
    /\ corrupt
    /\ pc' = "undefined"
    /\ UNCHANGED <<heap, out, ret, failedAt, command, command_args, gl, typed,
                   zeroRead, corrupt, executable, nullStr, pid, children,
                   execLog, waitLog, chdirLog, ignored>>
    /\ UNCHANGED <<utilVars, mpVars, gateVars>>

----------------------------------------------------------------------------
(* is_executable (shell.c), strcmp, int_to_string (helpers.c) *)

\* line 6; the NULL that ends the table is the end of the sequence
EXECUTABLE_PATH_START ==
    << <<DOT, SLASH, NUL>>, <<DOT, DOT, SLASH, NUL>>, <<SLASH, NUL>> >>

\* lines 122-134: the inner loop with both indices k characters on; TRUE
\* when it executes return TRUE, FALSE when it ends
RECURSIVE is_executable_scan(_, _, _, _)
is_executable_scan(path_start, cmd, k, exec_flag) ==
    IF Peek(cmd, k) # NUL /\ exec_flag
    THEN IF Peek(path_start, k) = NUL
         THEN TRUE
         ELSE is_executable_scan(path_start, cmd, k + 1,
                                 Peek(path_start, k) = Peek(cmd, k))
    ELSE FALSE

\* lines 122-134: the indices of the command that the inner loop reads;
\* the loop test reads *command_index before it looks at executable
RECURSIVE is_executable_cmd_reads(_, _, _, _)
is_executable_cmd_reads(path_start, cmd, k, exec_flag) ==
    {k} \cup
    IF Peek(cmd, k) # NUL /\ exec_flag
    THEN IF Peek(path_start, k) = NUL
         THEN {}
         ELSE is_executable_cmd_reads(path_start, cmd, k + 1,
                                      Peek(path_start, k) = Peek(cmd, k))
    ELSE {}

\* lines 122-134: the indices of the table entry that the inner loop reads
RECURSIVE is_executable_path_reads(_, _, _, _)
is_executable_path_reads(path_start, cmd, k, exec_flag) ==
    IF Peek(cmd, k) # NUL /\ exec_flag
    THEN {k} \cup
         IF Peek(path_start, k) = NUL
         THEN {}
         ELSE is_executable_path_reads(path_start, cmd, k + 1,
                                       Peek(path_start, k) = Peek(cmd, k))
    ELSE {}

\* lines 117-138: the outer loop from entry n of the table
RECURSIVE is_executable_from(_, _)
is_executable_from(cmd, n) ==
    IF n > Len(EXECUTABLE_PATH_START)
    THEN FALSE
    ELSE IF is_executable_scan(EXECUTABLE_PATH_START[n], cmd, 0, TRUE)
    THEN TRUE
    ELSE is_executable_from(cmd, n + 1)

\* mutant of is_executable: only the first entry of the table is tried
is_executable_first(cmd) ==
    is_executable_scan(EXECUTABLE_PATH_START[1], cmd, 0, TRUE)

is_executable(cmd) == is_executable_from(cmd, 1)

RECURSIVE strcmp_from(_, _, _)
strcmp_from(str1, str2, i) ==
    IF Peek(str1, i) = Peek(str2, i)
    THEN IF Peek(str1, i) = NUL THEN 0 ELSE strcmp_from(str1, str2, i + 1)
    ELSE IF Peek(str1, i) > Peek(str2, i) THEN 1 ELSE -1

\* mutant of strcmp: str1 is compared up to the end of str2 only
strcmp_prefix(str1, str2) ==
    IF \A i \in 0..(Len(str2) - 2) : Peek(str1, i) = Peek(str2, i)
    THEN 0
    ELSE 1

strcmp(str1, str2) == strcmp_from(str1, str2, 0)

\* int is 32 bits wide: -num of the least int is the least int again
INT_MIN == -2147483647 - 1

Neg32(num) == IF num = INT_MIN THEN num ELSE -num

\* lines 179-184: the number of digits added to i
RECURSIVE int_to_string_len(_, _)
int_to_string_len(num_copy, i) ==
    IF num_copy > 0 THEN int_to_string_len(num_copy \div 10, i + 1) ELSE i

\* lines 187-192: the digits are stored from the last one back
RECURSIVE int_to_string_fill(_, _, _)
int_to_string_fill(buffer, num, i) ==
    IF num > 0
    THEN int_to_string_fill(
             [k \in DOMAIN buffer |->
                 IF k = i THEN CH_0 + (num % 10) ELSE buffer[k]],
             num \div 10, i - 1)
    ELSE buffer

\* int_to_string(num, buffer): the buffer it leaves
int_to_string(num, buffer) ==
    IF num = 0
    THEN [k \in DOMAIN buffer |->
             IF k = 1 THEN CH_0 ELSE IF k = 2 THEN NUL ELSE buffer[k]]
    ELSE LET neg == num < 0
             b1 == IF neg
                   THEN [k \in DOMAIN buffer |->
                            IF k = 1 THEN MINUS ELSE buffer[k]]
                   ELSE buffer
             n1 == IF neg THEN Neg32(num) ELSE num
             i == int_to_string_len(n1, IF neg THEN 1 ELSE 0)
             b2 == [k \in DOMAIN b1 |-> IF k = i + 1 THEN NUL ELSE b1[k]]
         IN int_to_string_fill(b2, n1, i)

\* the / and % of C on an int and a positive int: the quotient is rounded
\* towards 0 and the remainder has the sign of the dividend
c_div(a, b) == IF a >= 0 \/ a % b = 0 THEN a \div b ELSE (a \div b) + 1

c_rem(a, b) == a - b * c_div(a, b)

\* lines 179-184 in a build that takes num to be positive after num = -num
\* (the overflow of -num is undefined, so the first test of the loop may be
\* left out): the body runs once before num_copy is tested
RECURSIVE int_to_string_len_do(_, _)
int_to_string_len_do(num_copy, i) ==
    IF c_div(num_copy, 10) > 0
    THEN int_to_string_len_do(c_div(num_copy, 10), i + 1)
    ELSE i + 1

\* lines 187-192 in such a build
RECURSIVE int_to_string_fill_do(_, _, _)
int_to_string_fill_do(buffer, num, i) ==
    LET b == [k \in DOMAIN buffer |->
                 IF k = i THEN CH_0 + c_rem(num, 10) ELSE buffer[k]]
    IN IF c_div(num, 10) > 0
       THEN int_to_string_fill_do(b, c_div(num, 10), i - 1)
       ELSE b

\* int_to_string(num, buffer) in such a build, for num other than 0
int_to_string_assumed(num, buffer) ==
    LET neg == num < 0
        b1 == IF neg
              THEN [k \in DOMAIN buffer |->
                       IF k = 1 THEN MINUS ELSE buffer[k]]
              ELSE buffer
        n1 == IF neg THEN Neg32(num) ELSE num
        i == int_to_string_len_do(n1, IF neg THEN 1 ELSE 0)
        b2 == [k \in DOMAIN b1 |-> IF k = i + 1 THEN NUL ELSE b1[k]]
    IN int_to_string_fill_do(b2, n1, i)

\* lines 164-186: the index of the terminator, the highest index
\* int_to_string stores to
int_to_string_end(num) ==
    IF num = 0
    THEN 1
    ELSE int_to_string_len(IF num < 0 THEN Neg32(num) ELSE num,
                           IF num < 0 THEN 1 ELSE 0)

\* the characters of the string a char* points to; a read through NULL
\* yields nullStr
StrAt(h, ptr, ns) == IF ptr = NULL THEN ns ELSE h[ptr].data

\* handle_command: command_args[i]
Argv(i) == Peek(heap[command_args].data, i)

\* mutant of HcClassify: the two handlers are taken for each other
HcClassifySwapped ==
    /\ pc = "classify"
    /\ heap' = free(heap, command)
    /\ command' = NULL
    /\ \E fault \in BOOLEAN, ns \in NullStrs :
          /\ Argv(0) # NULL => (~fault /\ ns = nullStr)
          /\ IF fault
             THEN /\ pc' = "crashed"
                  /\ UNCHANGED <<executable, nullStr>>
             ELSE /\ nullStr' = ns
                  /\ executable' = is_executable(StrAt(heap, Argv(0), ns))
                  /\ pc' = IF executable' THEN "builtin" ELSE "he_exec"
    /\ UNCHANGED <<out, ret, failedAt, command_args, gl, typed, zeroRead,
                   corrupt, pid, children, execLog, waitLog, chdirLog,
                   ignored>>
    /\ UNCHANGED <<utilVars, mpVars, gateVars>>

\* mutant of HcClassify: is_executable ends the word at its first character
HcClassifyStores ==
    /\ pc = "classify"
    /\ heap' = [b \in DOMAIN heap |->
                   IF b = Argv(0)
                   THEN [heap[b] EXCEPT !.data[1] = NUL]
                   ELSE free(heap, command)[b]]
    /\ command' = NULL
    /\ \E fault \in BOOLEAN, ns \in NullStrs :
          /\ Argv(0) # NULL => (~fault /\ ns = nullStr)
          /\ IF fault
             THEN /\ pc' = "crashed"
                  /\ UNCHANGED <<executable, nullStr>>
             ELSE /\ nullStr' = ns
                  /\ executable' = is_executable(StrAt(heap, Argv(0), ns))
                  /\ pc' = IF executable' THEN "he_exec" ELSE "builtin"
    /\ UNCHANGED <<out, ret, failedAt, command_args, gl, typed, zeroRead,
                   corrupt, pid, children, execLog, waitLog, chdirLog,
                   ignored>>
    /\ UNCHANGED <<utilVars, mpVars, gateVars>>

\* handle_command, lines 240-249: free(command), then the call of
\* is_executable.  A blank line leaves command_args[0] NULL, and
\* is_executable reads through it: the read faults, or yields what address 0
\* holds
HcClassify ==
    /\ pc = "classify"
    /\ heap' = free(heap, command)
    /\ command' = NULL
    /\ \E fault \in BOOLEAN, ns \in NullStrs :
          /\ Argv(0) # NULL => (~fault /\ ns = nullStr)
          /\ IF fault
             THEN /\ pc' = "crashed"
                  /\ UNCHANGED <<executable, nullStr>>
             ELSE /\ nullStr' = ns
                  /\ executable' = is_executable(StrAt(heap, Argv(0), ns))
                  /\ pc' = IF executable' THEN "he_exec" ELSE "builtin"
    /\ UNCHANGED <<out, ret, failedAt, command_args, gl, typed, zeroRead,
                   corrupt, pid, children, execLog, waitLog, chdirLog,
                   ignored>>
    /\ UNCHANGED <<utilVars, mpVars, gateVars>>

----------------------------------------------------------------------------
(* handle_executable, handle_builtin, the release loop, main (shell.c) *)

\* mutant of HeExec: the result of exec is not compared with -1
HeExecUnchecked ==
    /\ pc = "he_exec"
    /\ \E r \in Pids \cup {-1} :
          /\ pid' = r
          /\ execLog' = Append(execLog, [path |-> Argv(0),
                                         argv |-> command_args,
                                         result |-> r])
          /\ children' = IF r = -1 THEN children ELSE children \cup {r}
    /\ pc' = "he_wait"
    /\ UNCHANGED <<heap, out, ret, failedAt, command, command_args, gl,
                   typed, zeroRead, corrupt, executable, nullStr, waitLog,
                   chdirLog, ignored>>
    /\ UNCHANGED <<utilVars, mpVars, gateVars>>

\* mutant of HeExec: the child is left running and not waited for
HeExecNoWait ==
    /\ pc = "he_exec"
    /\ \E r \in Pids \cup {-1} :
          /\ pid' = r
          /\ execLog' = Append(execLog, [path |-> Argv(0),
                                         argv |-> command_args,
                                         result |-> r])
          /\ children' = IF r = -1 THEN children ELSE children \cup {r}
    /\ pc' = "release"
    /\ UNCHANGED <<heap, out, ret, failedAt, command, command_args, gl,
                   typed, zeroRead, corrupt, executable, nullStr, waitLog,
                   chdirLog, ignored>>
    /\ UNCHANGED <<utilVars, mpVars, gateVars>>

\* mutant of HeExec: handle_executable frees argv[0]
HeExecFrees ==
    /\ pc = "he_exec"
    /\ heap' = free(heap, Argv(0))
    /\ \E r \in Pids \cup {-1}, wOk \in BOOLEAN :
          /\ r \notin children
          /\ r # -1 => wOk
          /\ ignored' = Ignore(wOk)
          /\ pid' = r
          /\ execLog' = Append(execLog, [path |-> Argv(0),
                                         argv |-> command_args,
                                         result |-> r])
          /\ IF r = -1
             THEN /\ out' = out \o
                       <<Lit("YehudaSH: execution of "),
                         print_str(StrAt(heap, Argv(0), nullStr)),
                         Lit("has failed\\n")>>
                  /\ children' = children
                  /\ pc' = "release"
             ELSE /\ out' = out
                  /\ children' = children \cup {r}
                  /\ pc' = "he_wait"
    /\ UNCHANGED <<ret, failedAt, command, command_args, gl, typed,
                   zeroRead, corrupt, executable, nullStr, waitLog, chdirLog>>
    /\ UNCHANGED <<utilVars, mpVars, gateVars>>

\* handle_executable, lines 177-187: the exec call
HeExec ==
    /\ pc = "he_exec"
    /\ \E r \in Pids \cup {-1}, wOk \in BOOLEAN :
          /\ r \notin children
          /\ r # -1 => wOk
          /\ ignored' = Ignore(wOk)
          /\ pid' = r
          /\ execLog' = Append(execLog, [path |-> Argv(0),
                                         argv |-> command_args,
                                         result |-> r])
          /\ IF r = -1
             THEN /\ out' = out \o
                       <<Lit("YehudaSH: execution of "),
                         print_str(StrAt(heap, Argv(0), nullStr)),
                         Lit("has failed\\n")>>
                  /\ children' = children
                  /\ pc' = "release"
             ELSE /\ out' = out
                  /\ children' = children \cup {r}
                  /\ pc' = "he_wait"
    /\ UNCHANGED <<heap, ret, failedAt, command, command_args, gl, typed,
                   zeroRead, corrupt, executable, nullStr, waitLog, chdirLog>>
    /\ UNCHANGED <<utilVars, mpVars, gateVars>>

\* handle_executable, lines 189-201: the waitpid call, which returns when
\* the child has ended, or at once with -1 when it had ended before.  For
\* the least int the negation in int_to_string overflows, and the build
\* wraps it or has assumed that it does not happen.  A
\* store of int_to_string past exitcode_buffer[MAX_INT_STRLEN - 1] lands on
\* the stack next to the buffer: it is harmless (smash is FALSE) or it is
\* not, and then what the shell does next is not defined
HeWait ==
    /\ pc = "he_wait"
    /\ \E w \in {0, -1}, exitcode \in ExitCodes, smash \in BOOLEAN,
          wOk \in BOOLEAN, assumed \in BOOLEAN :
          /\ w = -1 => exitcode = 0
          /\ assumed => (w = 0 /\ exitcode = INT_MIN)
          /\ ignored' = Ignore(wOk)
          /\ smash => (w = 0 /\ int_to_string_end(exitcode) >= MAX_INT_STRLEN)
          /\ waitLog' = Append(waitLog, [pid |-> pid, result |-> w,
                                         exitcode |-> exitcode])
          /\ pc' = IF smash THEN "undefined" ELSE "release"
          /\ out' = out \o
                (IF w = -1
                 THEN <<Lit("Failed to retrieve the exit code of "),
                        print_str(StrAt(heap, Argv(0), nullStr))>>
                 ELSE <<print_str(StrAt(heap, Argv(0), nullStr)),
                        Lit(" has exited with exit code "),
                        print_str(
                            IF assumed
                            THEN int_to_string_assumed(exitcode,
                                     Zeroed(MAX_INT_STRLEN))
                            ELSE int_to_string(exitcode,
                                     Zeroed(MAX_INT_STRLEN)))>>)
                \o <<Lit("\\n")>>
    /\ children' = children \ {pid}
    /\ UNCHANGED <<heap, ret, failedAt, command, command_args, gl, typed,
                   zeroRead, corrupt, executable, nullStr, pid, execLog,
                   chdirLog>>
    /\ UNCHANGED <<utilVars, mpVars, gateVars>>

\* handle_builtin, lines 146-167; r is what chdir returns when it is called
HandleBuiltin ==
    /\ pc = "builtin"
    /\ \E r \in {0, -1}, wOk \in BOOLEAN :
          /\ IF strcmp(StrAt(heap, Argv(0), nullStr), <<CH_c, CH_d, NUL>>) = 0
             THEN IF Argv(1) = NULL
                  THEN /\ r = 0
                       /\ out' = Append(out,
                                    Lit("YehudaSH: cd: No target parameter"))
                       /\ chdirLog' = chdirLog
                  ELSE /\ chdirLog' = Append(chdirLog, [path |-> Argv(1),
                                                        result |-> r])
                       /\ out' = IF r = -1
                                 THEN out \o
                                      <<Lit("YehudaSH: cd: "),
                                        print_str(heap[Argv(1)].data),
                                        Lit(": No such file or directory")>>
                                 ELSE out
             ELSE /\ r = 0
                  /\ out' = out \o
                        <<Lit("YehudaSH: "),
                          print_str(StrAt(heap, Argv(0), nullStr)),
                          Lit(": command not found")>>
                  /\ chdirLog' = chdirLog
          /\ (out' = out) => wOk
          /\ ignored' = Ignore(wOk)
    /\ pc' = "release"
    /\ UNCHANGED <<heap, ret, failedAt, command, command_args, gl, typed,
                   zeroRead, corrupt, executable, nullStr, pid, children,
                   execLog, waitLog>>
    /\ UNCHANGED <<utilVars, mpVars, gateVars>>

\* handle_command, lines 251-257: the words are freed up to the first NULL
RECURSIVE release_from(_, _, _)
release_from(h, arr, i) ==
    IF Peek(h[arr].data, i) # NULL
    THEN release_from(Store(free(h, Peek(h[arr].data, i)), arr, i, NULL),
                      arr, i + 1)
    ELSE h

\* mutant of HcRelease: the list array is freed twice
HcReleaseTwice ==
    /\ pc = "release"
    /\ heap' = free(free(release_from(heap, command_args, 0), command_args),
                    command_args)
    /\ command_args' = NULL
    /\ ret' = TRUE
    /\ pc' = "returned"
    /\ UNCHANGED <<out, failedAt, command, gl, typed, zeroRead, corrupt,
                   executable, nullStr, pid, children, execLog, waitLog,
                   chdirLog, ignored>>
    /\ UNCHANGED <<utilVars, mpVars, gateVars>>

\* handle_command, lines 251-261
HcRelease ==
    /\ pc = "release"
    /\ heap' = free(release_from(heap, command_args, 0), command_args)
    /\ command_args' = NULL
    /\ ret' = TRUE
    /\ pc' = "returned"
    /\ UNCHANGED <<out, failedAt, command, gl, typed, zeroRead, corrupt,
                   executable, nullStr, pid, children, execLog, waitLog,
                   chdirLog, ignored>>
    /\ UNCHANGED <<utilVars, mpVars, gateVars>>

\* main, lines 268-271: the result of handle_command is tested
MainReport ==
    /\ pc = "returned"
    /\ out' = IF ret
              THEN out
              ELSE Append(out,
                          Lit("YehudaSH: Allocating memory has failed.\\n"))
    /\ \E wOk \in BOOLEAN :
          /\ ret => wOk
          /\ ignored' = Ignore(wOk)
    /\ pc' = "main"
    /\ UNCHANGED <<heap, ret, failedAt, command, command_args, gl, typed,
                   zeroRead, corrupt, executable, nullStr, pid, children,
                   execLog, waitLog, chdirLog>>
    /\ UNCHANGED <<utilVars, mpVars, gateVars>>

Next ==
    \/ HcPrompt
    \/ GetlineIter
    \/ HcParse
    \/ Undefined
    \/ HcClassify
    \/ HeExec
    \/ HeWait
    \/ HandleBuiltin
    \/ HcRelease
    \/ MainReport

Spec == Init /\ [][Next]_vars

----------------------------------------------------------------------------
(* The file utilities: ls.c, cat.c, rm.c, rmdir.c, touch.c, mkdir.c, edit.c. *)
(* A run of a utility is one action: its main from entry to return, with    *)
(* the kernel's answers drawn from the set Kernel.                          *)

\* the most lines other than the last one that edit is given
MaxLines == 1

\* argv[1] when the utility is started with an operand
Operands ==
    {<<CH_c, NUL>>, <<SLASH, CH_c, NUL>>, <<CH_d, SLASH, CH_c, NUL>>}

\* argc and argv[1] as the utility is started: argv[argc] is NULL
Args ==
    {[argc |-> 1, argv1 |-> <<>>]} \cup
    {[argc |-> 2, argv1 |-> o] : o \in Operands}

\* the results of open and creat: -1, or a file descriptor
Fds == {-1, 3}

\* the sizes fstat reports: bytes of a file, entries of a directory
Sizes == {0, 1}

\* the bytes that follow an array on the stack that holds no terminator
Tails == {<<NUL>>, <<CH_d, NUL>>}

\* the answers of the kernel and the outcomes of undefined reads and stores
\* in one run: fd and fd2 of the first and second open, directory and size
\* from fstat, creat's result, whether an access through an invalid pointer
\* faults, the bytes at address 0, the bytes after an unterminated array,
\* and for edit the lines typed and how getline ends them
Kernel ==
    [fd : Fds, fd2 : Fds, directory : BOOLEAN, size : Sizes,
     creat : {0, -1}, fault : BOOLEAN, ns : NullStrs, tail : Tails,
     lines : 0..MaxLines, last : {"empty", "null"}]

Call(name, handle, path) == [name |-> name, fd |-> handle, path |-> path]

\* print_newline, helpers.c line 149
print_newline == Lit("\\n")

\* what main leaves behind: the kernel calls, the output, the result
Ran(c, o, st) == [calls |-> c, uout |-> o, status |-> st]

\* the string read through a char*: through NULL it is the bytes at 0
Deref(str, k) == IF str = <<>> THEN k.ns ELSE str

\* strrchr(str, ch): the C index of the last ch of the string, -1 for NULL
strrchr(str, ch) ==
    LET s == CStr(str)
        at == {i \in 1..Len(s) : s[i] = ch}
    IN IF at = {} THEN -1 ELSE (CHOOSE i \in at : \A j \in at : j <= i) - 1

\* char path[idx + 2]; strncpy(path, argv[1], idx + 1): the array holds no
\* terminator, and a reader of the string runs on into what follows it
PathOf(str, idx, k) == strncpy(str, 0, idx + 1) \o k.tail

\* cat.c, main
cat_main(ac, av1, k) ==
    IF ac < 2
    THEN Ran(<<>>,
             <<Lit("cat: missing file operand"), print_newline,
               Lit("Usage: cat <file>"), print_newline>>, "1")
    ELSE LET c1 == <<Call("open", 0, av1)>> IN
         IF k.fd = -1
         THEN Ran(c1, <<Lit("File does not exist."), print_newline>>, "1")
         ELSE LET c2 == Append(c1, Call("fstat", k.fd, <<>>)) IN
              IF k.directory
              THEN Ran(c2, <<Lit("Specified path is not a file."),
                             print_newline>>, "1")
              ELSE LET buf == [i \in 1..k.size |-> CH_c]
                       c3 == Append(c2, Call("read", k.fd, <<>>))
                       o3 == <<print_str(buf \o k.tail), print_newline>>
                   IN \* free_array(&buf, stat.size) frees what the bytes
                      \* of buf read as pointers
                      IF k.size > 0 /\ k.fault
                      THEN Ran(c3, o3, "fault")
                      ELSE Ran(c3 \o [i \in 1..k.size |->
                                         Call("free", 0, <<>>)], o3, "0")

\* ls.c, main: stat is not initialised and entry is a null pointer
ls_main(ac, av1, k) ==
    LET c3 == <<Call("open", 0, IF ac = 1 THEN <<SLASH, DOT, NUL>> ELSE av1),
                Call("fstat", k.fd, <<>>),
                Call("readdir", k.fd, <<>>)>>
    IN IF k.size > 0
       THEN IF k.fault
            THEN Ran(c3, <<>>, "fault")
            ELSE Ran(c3, [i \in 1..(2 * k.size) |->
                             IF i % 2 = 1 THEN print_str(k.ns)
                             ELSE print_newline], "0")
       ELSE Ran(c3, <<>>, "0")

\* rm.c, main, lines 27-56: what follows the test of argc
rm_body(o, av1, k) ==
    LET str == Deref(av1, k)
        idx == strrchr(str, SLASH)
        c1 == <<Call("open", 0, av1)>>
        c2 == IF idx # -1
              THEN Append(c1, Call("open", 0, PathOf(str, idx, k)))
              ELSE c1
        c3 == Append(c2, Call("fstat", k.fd, <<>>))
    IN IF av1 = <<>> /\ k.fault
       THEN Ran(<<>>, o, "fault")
       ELSE IF k.fd # -1
       THEN IF idx # -1 /\ k.fd2 = -1
            THEN Ran(c2, o \o <<Lit("invalid path"), print_newline>>, "0")
            ELSE IF k.directory
            THEN Ran(c3, o \o <<Lit("Error: Cannot remove folders using 'rm' command. Only files can be deleted."),
                                print_newline>>, "1")
            ELSE Ran(Append(c3, Call("remove_file", 0, av1)), o, "0")
       ELSE Ran(Append(c1, Call("remove_file", 0, av1)), o, "0")

\* rm.c, main: the test of argc does not return
rm_main(ac, av1, k) ==
    rm_body(IF ac < 2
            THEN <<Lit("rm: missing file operand"), print_newline,
                   Lit("Usage: rm <file>"), print_newline>>
            ELSE <<>>, av1, k)

\* rmdir.c, main, lines 27-44: what follows the test of argc
rmdir_body(o, av1, k) ==
    LET c1 == <<Call("open", 0, av1)>>
        c2 == Append(c1, Call("fstat", k.fd, <<>>))
    IN IF av1 = <<>> /\ k.fault
       THEN Ran(<<>>, o, "fault")
       ELSE IF k.fd # -1
       THEN IF ~k.directory
            THEN Ran(c2, o \o <<Lit("Error: Cannot remove files using 'rmdir' command. Only folders can be deleted."),
                                print_newline>>, "1")
            ELSE Ran(Append(c2, Call("remove_file", 0, av1)), o, "0")
       ELSE Ran(Append(c1, Call("remove_file", 0, av1)), o, "0")

\* rmdir.c, main: the test of argc does not return
rmdir_main(ac, av1, k) ==
    rmdir_body(IF ac < 2
               THEN <<Lit("rmdir: missing dir operand"), print_newline,
                      Lit("Usage: rmdir <dir_name>"), print_newline>>
               ELSE <<>>, av1, k)

\* touch.c, main.  malloc(slash - argv[1]) gives idx bytes and idx + 2 are
\* stored: the stores past the block are harmless or they are not
touch_main(ac, av1, k) ==
    IF ac <= 1
    THEN Ran(<<>>, <<Lit("touch: missing file operand\\nUsage: touch <file>\\n")>>,
             "1")
    ELSE LET idx == strrchr(av1, SLASH)
             path == strncpy(av1, 0, idx + 1) \o <<NUL>>
             o1 == IF idx # -1 THEN <<print_str(path), print_newline>>
                   ELSE <<>>
             c1 == IF idx # -1 THEN <<Call("open", 0, path)>> ELSE <<>>
             c2 == IF idx # -1 /\ k.fd # -1
                   THEN Append(c1, Call("fstat", k.fd, <<>>))
                   ELSE c1
             c3 == Append(c2, Call("creat", 0, av1))
         IN IF idx # -1 /\ k.fault
            THEN Ran(<<>>, <<>>, "undefined")
            ELSE IF idx # -1 /\ k.fd # -1 /\ ~k.directory
            THEN Ran(c2, o1 \o <<Lit("path is a file and not a folder"),
                                 print_newline>>, "1")
            ELSE IF k.creat = -1
            THEN Ran(c3, o1 \o <<Lit("touch: failed to create file\\n")>>,
                     "1")
            ELSE Ran(c3, o1, "0")

\* mkdir.c, main.  free(slash) frees a pointer into argv[1] that malloc
\* never returned: it is harmless or it is not
mkdir_main(ac, av1, k) ==
    IF ac < 2
    THEN Ran(<<>>,
             <<Lit("mkdir: missing file operand"), print_newline,
               Lit("Usage: mkdir <dir_name>"), print_newline>>, "1")
    ELSE LET idx == strrchr(av1, SLASH)
             c1 == IF idx # -1
                   THEN <<Call("open", 0, PathOf(av1, idx, k))>>
                   ELSE <<>>
             c2 == Append(c1, Call("creat", 0, av1))
         IN IF idx # -1 /\ k.fd = -1
            THEN Ran(c1, <<Lit("invalid path"), print_newline>>, "1")
            ELSE IF idx # -1 /\ k.fault
            THEN Ran(c2, <<>>, "undefined")
            ELSE Ran(Append(c2, Call("free", 0, <<>>)), <<>>, "0")

\* edit.c, main, lines 41-59: k.lines lines that are not empty are read,
\* then the empty line, or a NULL from getline, which strlen reads through:
\* the read faults, or the bytes at address 0 are the line (and when they
\* are not the empty string, the empty line follows)
edit_loop(c, k) ==
    LET n == IF k.last = "null" /\ CStr(k.ns) # <<>>
             THEN k.lines + 1
             ELSE k.lines
        c1 == c \o [i \in 1..n |-> Call("free", 0, <<>>)]
        done == Ran(c1 \o <<Call("write", k.fd, <<>>), Call("free", 0, <<>>),
                            Call("free", 0, <<>>)>>, <<>>, "0")
    IN IF k.last = "null" /\ k.fault
       THEN Ran(c1, <<>>, "fault")
       ELSE done

\* edit.c, main
edit_main(ac, av1, k) ==
    IF ac <= 1
    THEN Ran(<<>>, <<Lit("edit: missing file operand\\nUsage: edit <file>\\n")>>,
             "1")
    ELSE LET c1 == <<Call("open", 0, av1)>> IN
         IF k.fd = -1
         THEN Ran(c1, <<Lit("edit: file does not exist.\\n")>>, "1")
         ELSE LET c2 == Append(c1, Call("fstat", k.fd, <<>>)) IN
              IF k.directory
              THEN Ran(c2, <<Lit("cant edit a folder"), print_newline>>, "1")
              ELSE edit_loop(Append(c2, Call("write", k.fd, <<>>)), k)

\* main has run: what it leaves behind
Exits(name, a, r) ==
    /\ prog' = name
    /\ argc' = a.argc
    /\ argv1' = a.argv1
    /\ calls' = r.calls
    /\ uout' = r.uout
    /\ status' = r.status

\* cat is started with argc and argv and runs until its main returns or
\* its process is ended
RunCat ==
    /\ prog = "none"
    /\ \E a \in Args, k \in Kernel :
          Exits("cat", a, cat_main(a.argc, a.argv1, k))
    /\ UNCHANGED <<shellVars, mpVars, gateVars>>

\* ls is started with argc and argv and runs until its main returns or
\* its process is ended
RunLs ==
    /\ prog = "none"
    /\ \E a \in Args, k \in Kernel :
          Exits("ls", a, ls_main(a.argc, a.argv1, k))
    /\ UNCHANGED <<shellVars, mpVars, gateVars>>

\* rm is started with argc and argv and runs until its main returns or
\* its process is ended
RunRm ==
    /\ prog = "none"
    /\ \E a \in Args, k \in Kernel :
          Exits("rm", a, rm_main(a.argc, a.argv1, k))
    /\ UNCHANGED <<shellVars, mpVars, gateVars>>

\* rmdir is started with argc and argv and runs until its main returns or
\* its process is ended
RunRmdir ==
    /\ prog = "none"
    /\ \E a \in Args, k \in Kernel :
          Exits("rmdir", a, rmdir_main(a.argc, a.argv1, k))
    /\ UNCHANGED <<shellVars, mpVars, gateVars>>

\* touch is started with argc and argv and runs until its main returns or
\* its process is ended
RunTouch ==
    /\ prog = "none"
    /\ \E a \in Args, k \in Kernel :
          Exits("touch", a, touch_main(a.argc, a.argv1, k))
    /\ UNCHANGED <<shellVars, mpVars, gateVars>>

\* mkdir is started with argc and argv and runs until its main returns or
\* its process is ended
RunMkdir ==
    /\ prog = "none"
    /\ \E a \in Args, k \in Kernel :
          Exits("mkdir", a, mkdir_main(a.argc, a.argv1, k))
    /\ UNCHANGED <<shellVars, mpVars, gateVars>>

\* edit is started with argc and argv and runs until its main returns or
\* its process is ended
RunEdit ==
    /\ prog = "none"
    /\ \E a \in Args, k \in Kernel :
          Exits("edit", a, edit_main(a.argc, a.argv1, k))
    /\ UNCHANGED <<shellVars, mpVars, gateVars>>

\* _start: the exit system call ends the process
UtilExit ==
    /\ prog # "none"
    /\ prog' = "none"
    /\ argc' = 0
    /\ argv1' = <<>>
    /\ calls' = <<>>
    /\ uout' = <<>>
    /\ status' = "none"
    /\ UNCHANGED <<shellVars, mpVars, gateVars>>

UtilNext ==
    \/ RunCat
    \/ RunLs
    \/ RunRm
    \/ RunRmdir
    \/ RunTouch
    \/ RunMkdir
    \/ RunEdit
    \/ UtilExit

UtilSpec == Init /\ [][UtilNext]_vars

----------------------------------------------------------------------------
(* The multiprocessing program (src/usermode/multiprocessing.c).  One step  *)
(* is one iteration of a loop of main; the children run beside main and    *)
(* end when they choose to.                                                *)

\* the process identifiers the kernel hands out
MpPids == 1..NUM_OF_PROCESSES

\* the identifiers exec has returned so far
Created == {mp_execLog[k].result : k \in 1..Len(mp_execLog)} \ {-1}

\* main, lines 12-22: one iteration of the first loop.  exec returns the
\* identifier of a new process or -1.  args[1] is a string literal, so the
\* store of line 21 is undefined: it faults or it changes the character.
MpCreate ==
    /\ mp_pc = "create"
    /\ \E r \in {-1} \cup (MpPids \ Created), fault \in BOOLEAN :
          /\ mp_execLog' = Append(mp_execLog, [result |-> r, arg |-> args1])
          /\ pids' = [pids EXCEPT ![mp_i + 1] = r]
          /\ IF r = -1
             THEN /\ mp_out' = mp_out \o
                      <<Lit("Creating process\\n"),
                        Lit("execution of one of the processes failed\\n")>>
                  /\ mp_pc' = "returned"
                  /\ mp_ret' = 1
                  /\ UNCHANGED <<mp_i, args1, alive>>
             ELSE /\ mp_out' = Append(mp_out, Lit("Creating process\\n"))
                  /\ alive' = alive \cup {r}
                  /\ IF fault
                     THEN /\ mp_pc' = "crashed"
                          /\ UNCHANGED <<mp_i, args1, mp_ret>>
                     ELSE /\ args1' = args1 + 1
                          /\ mp_i' = IF mp_i + 1 < NUM_OF_PROCESSES
                                     THEN mp_i + 1 ELSE 0
                          /\ mp_pc' = IF mp_i + 1 < NUM_OF_PROCESSES
                                      THEN "create" ELSE "wait"
                          /\ UNCHANGED mp_ret
    /\ UNCHANGED mp_waitLog
    /\ UNCHANGED <<shellVars, utilVars, gateVars>>

\* a child, repeat.c lines 3-18: it returns from main and ends
ChildEnds ==
    /\ \E p \in alive : alive' = alive \ {p}
    /\ UNCHANGED <<mp_pc, mp_i, pids, args1, mp_execLog, mp_waitLog, mp_out,
                   mp_ret>>
    /\ UNCHANGED <<shellVars, utilVars, gateVars>>

\* main, lines 24-29: one iteration of the second loop, and the return
\* after the last one.  waitpid returns 0 once the process has ended, and
\* -1 at once when it had ended before (sys.c lines 106-110); main does not
\* look at the result.
MpWait ==
    /\ mp_pc = "wait"
    /\ mp_waitLog' = Append(mp_waitLog,
           [pid |-> pids[mp_i + 1],
            result |-> IF pids[mp_i + 1] \in alive THEN 0 ELSE -1])
    /\ alive' = alive \ {pids[mp_i + 1]}
    /\ IF mp_i + 1 < NUM_OF_PROCESSES
       THEN /\ mp_i' = mp_i + 1
            /\ UNCHANGED <<mp_pc, mp_ret>>
       ELSE /\ mp_pc' = "returned"
            /\ mp_ret' = 0
            /\ UNCHANGED mp_i
    /\ UNCHANGED <<pids, args1, mp_execLog, mp_out>>
    /\ UNCHANGED <<shellVars, utilVars, gateVars>>

MpNext ==
    \/ MpCreate
    \/ ChildEnds
    \/ MpWait

MpSpec == Init /\ [][MpNext]_vars

----------------------------------------------------------------------------
(* The two kernel gateways: syscall and its wrappers in                    *)
(* src/usermode/yehuda-os/sys.c and in src/usermode/yehuda-os.c.  What is  *)
(* modelled is the content of the argument registers when the syscall      *)
(* instruction runs.                                                       *)

\* the greatest value an argument takes
MaxWord == 1

Words == 0..MaxWord

Codes == {READ, WRITE, EXEC}

\* sys.c, lines 22-39: every value is in a variable bound to its register
sys_syscall(syscall_number, arg0, arg1, arg2, arg3, arg4, arg5) ==
    [rax |-> syscall_number, rdi |-> arg0, rsi |-> arg1, rdx |-> arg2,
     r10 |-> arg3, r8 |-> arg4, r9 |-> arg5]

\* yehuda-os.c, lines 19-32: the variables r10, r8 and r9 are all bound to
\* register r10, so r10 holds one of arg3, arg4 and arg5, and r8 and r9
\* hold what they held before.  The constraints "%rax", "%rdi", "%rsi" and
\* "%rdx" are lists of register classes and name no register, so the
\* compiler may place these operands where the names suggest or elsewhere.
old_syscall(syscall_number, arg0, arg1, arg2, arg3, arg4, arg5) ==
    [rax : {syscall_number} \cup Words, rdi : {arg0} \cup Words,
     rsi : {arg1} \cup Words, rdx : {arg2} \cup Words,
     r10 : {arg3, arg4, arg5}, r8 : {arg4} \cup Words,
     r9 : {arg5} \cup Words]

\* sys.c, lines 51-54
sys_read(fd, buf, count, offset) ==
    sys_syscall(READ, fd, buf, count, offset, 0, 0)

\* yehuda-os.c, lines 44-47
old_read(fd, buf, count, offset) ==
    old_syscall(READ, fd, buf, count, offset, 0, 0)

\* sys.c, lines 67-70
sys_write(fd, buf, count, offset) ==
    sys_syscall(WRITE, fd, buf, count, offset, 0, 0)

\* yehuda-os.c, lines 60-63
old_write(fd, buf, count, offset) ==
    old_syscall(WRITE, fd, buf, count, offset, 0, 0)

\* sys.c, lines 178-181
sys_exec(pathname, argv) == sys_syscall(EXEC, pathname, argv, 0, 0, 0, 0)

\* yehuda-os.c, lines 134-137: exec takes no argv and passes 0 for it
old_exec(pathname) == old_syscall(EXEC, pathname, 0, 0, 0, 0, 0)

\* a caller calls syscall with the same code and arguments in both
GateSyscall ==
    /\ g_op = "none"
    /\ \E code \in Codes, a \in [1..6 -> Words] :
          /\ g_call' = [code |-> code,
                        args |-> <<a[1], a[2], a[3], a[4], a[5], a[6]>>]
          /\ g_sys' = sys_syscall(code, a[1], a[2], a[3], a[4], a[5], a[6])
          /\ g_old' \in old_syscall(code, a[1], a[2], a[3], a[4], a[5], a[6])
    /\ g_op' = "syscall"
    /\ UNCHANGED <<shellVars, utilVars, mpVars>>

\* a caller calls read with the same arguments in both
GateRead ==
    /\ g_op = "none"
    /\ \E fd \in Words, buf \in Words, count \in Words, offset \in Words :
          /\ g_call' = [code |-> READ,
                        args |-> <<fd, buf, count, offset, 0, 0>>]
          /\ g_sys' = sys_read(fd, buf, count, offset)
          /\ g_old' \in old_read(fd, buf, count, offset)
    /\ g_op' = "read"
    /\ UNCHANGED <<shellVars, utilVars, mpVars>>

\* a caller calls write with the same arguments in both
GateWrite ==
    /\ g_op = "none"
    /\ \E fd \in Words, buf \in Words, count \in Words, offset \in Words :
          /\ g_call' = [code |-> WRITE,
                        args |-> <<fd, buf, count, offset, 0, 0>>]
          /\ g_sys' = sys_write(fd, buf, count, offset)
          /\ g_old' \in old_write(fd, buf, count, offset)
    /\ g_op' = "write"
    /\ UNCHANGED <<shellVars, utilVars, mpVars>>

\* a caller calls exec with the same path, and with argv where exec takes it
GateExec ==
    /\ g_op = "none"
    /\ \E pathname \in Words, argv \in Words :
          /\ g_call' = [code |-> EXEC,
                        args |-> <<pathname, argv, 0, 0, 0, 0>>]
          /\ g_sys' = sys_exec(pathname, argv)
          /\ g_old' \in old_exec(pathname)
    /\ g_op' = "exec"
    /\ UNCHANGED <<shellVars, utilVars, mpVars>>

\* the kernel returns to the caller, and the call is over
GateReturn ==
    /\ g_op # "none"
    /\ g_op' = "none"
    /\ g_call' = [code |-> 0, args |-> <<0, 0, 0, 0, 0, 0>>]
    /\ g_sys' = sys_syscall(0, 0, 0, 0, 0, 0, 0)
    /\ g_old' = sys_syscall(0, 0, 0, 0, 0, 0, 0)
    /\ UNCHANGED <<shellVars, utilVars, mpVars>>

GateNext ==
    \/ GateSyscall
    \/ GateRead
    \/ GateWrite
    \/ GateExec
    \/ GateReturn

GateSpec == Init /\ [][GateNext]_vars

----------------------------------------------------------------------------
(* Reference definitions the claims are stated with *)

\* handle_command has returned and main has not called it again
Returned == pc \in {"returned", "main"}

\* the line getline returned, as a string without its terminator
Line == CStr(heap[command].data)

\* the string of word i of the Word List
Word(i) == CStr(heap[Argv(i)].data)

\* the places where a maximal run of non-space characters of s starts
RunStarts(s) ==
    {i \in 1..Len(s) : s[i] # SP /\ (i = 1 \/ s[i - 1] = SP)}

\* the last place of the run that starts at place i
RunEnd(s, i) ==
    CHOOSE j \in i..Len(s) :
        /\ \A k \in i..j : s[k] # SP
        /\ j = Len(s) \/ s[j + 1] = SP

\* the k-th maximal run of non-space characters of s, from the left
Run(s, k) ==
    LET i == CHOOSE a \in RunStarts(s) :
                 Cardinality({b \in RunStarts(s) : b < a}) = k - 1
    IN SubSeq(s, i, RunEnd(s, i))

\* w begins with "./", "../" or "/"
HasPathPrefix(w) ==
    \E p \in {<<DOT, SLASH>>, <<DOT, DOT, SLASH>>, <<SLASH>>} :
        Len(w) >= Len(p) /\ SubSeq(w, 1, Len(p)) = p

\* the bytes kept of the bytes typed: a backspace removes the last one kept
RECURSIVE Kept(_)
Kept(bytes) ==
    IF bytes = <<>>
    THEN <<>>
    ELSE LET k == Kept(SubSeq(bytes, 1, Len(bytes) - 1))
             b == bytes[Len(bytes)]
         IN IF b = BS
            THEN SubSeq(k, 1, Len(k) - 1)
            ELSE Append(k, b)

----------------------------------------------------------------------------
(* The claims *)

\* C1 (as claimed): when handle_command returns after getline gave it a
\* line, on the normal path and on the path where parse_command returned
\* NULL, the line buffer, every word and the list array have been freed:
\* no block of the iteration is allocated any more.
C1_IterationFreesAll ==
    (Returned /\ failedAt \in {"none", "parse"}) => Live(heap) = {}

\* C2: for a line with a non-space character and no allocation failure,
\* slots 0 .. count_words(line) - 1 of the array parse_command returns hold
\* the maximal runs of non-space characters of the line from left to right,
\* each a terminated copy in a block of exactly its size, non-empty and
\* without a space, and slot count_words(line) is NULL.
C2_WordsAreRuns ==
    (pc = "classify" /\ \E i \in 1..Len(Line) : Line[i] # SP) =>
        LET n == count_words(heap[command].data)
            arr == heap[command_args].data
        IN /\ n = Cardinality(RunStarts(Line))
           /\ n >= 1
           /\ Len(arr) = n + 1
           /\ arr[n + 1] = NULL
           /\ \A k \in 1..n :
                 /\ arr[k] # NULL
                 /\ heap[arr[k]].nfree = 0
                 /\ heap[arr[k]].data = Run(Line, k) \o <<NUL>>
                 /\ Word(k - 1) # <<>>
                 /\ \A j \in 1..Len(Word(k - 1)) : Word(k - 1)[j] # SP
           /\ \A k, m \in 1..n : k # m => arr[k] # arr[m]

\* C2 witness: a parsed line of two words with a leading space
C2_Witness ==
    /\ pc = "classify"
    /\ Len(Line) > 0
    /\ Line[1] = SP
    /\ Cardinality(RunStarts(Line)) = 2

\* parse_command has unwound on heap h1 what it allocated on top of heap h0
Unwound(h0, r) ==
    /\ r.words = NULL
    /\ \A b \in DOMAIN r.h :
          IF b \in DOMAIN h0
          THEN r.h[b] = h0[b]
          ELSE r.h[b].nfree = 1

\* C3: when the calloc of the array or the malloc of the k-th word fails,
\* the last word flushed at the end of the line included, parse_command
\* returns NULL and has freed the array and every word it allocated exactly
\* once, and has touched no other block.
C3_FailureUnwinds ==
    /\ (pc = "parse" /\ ~corrupt) =>
          \A failAt \in 0..count_words(heap[command].data) :
              Unwound(heap, parse_command(heap, heap[command].data, failAt))
    /\ (Returned /\ failedAt = "parse") =>
          /\ command_args = NULL
          /\ \A b \in DOMAIN heap :
                heap[b].kind \in {"array", "word"} => heap[b].nfree = 1

\* C3 witness: parse_command failed at the last word, after it had
\* allocated the array and a word
C3_Witness ==
    /\ pc = "returned"
    /\ failedAt = "parse"
    /\ \E b \in DOMAIN heap : heap[b].kind = "word"

\* C4 (as claimed): is_executable(w) is TRUE exactly when the non-null word
\* w begins with "./", "../" or "/".
C4_ExecutableIffPrefix ==
    (pc \in {"he_exec", "builtin"} /\ Argv(0) # NULL) =>
        (executable <=> HasPathPrefix(Word(0)))

\* what handle_executable and handle_builtin name the command by
Argv0Printed == print_str(StrAt(heap, Argv(0), nullStr))

\* C5: handle_executable calls exec once, with argv[0] as the path and the
\* word list as the argument vector; when exec returns -1 it writes the
\* failure message that names argv[0] and calls waitpid not at all;
\* otherwise it calls waitpid once, with the pid exec returned, and writes
\* the exit status or the retrieval failure.  In every state of the shell
\* no waitpid call was made with -1, and there are no more waitpid calls
\* than successful exec calls.
C5_ExecThenOneWait ==
    /\ Len(execLog) <= 1
    /\ Len(waitLog) <= Len(execLog)
    /\ \A i \in DOMAIN waitLog :
          waitLog[i].pid # -1 /\ waitLog[i].pid = execLog[i].result
    /\ pc = "he_wait" =>
          (Len(execLog) = 1 /\ waitLog = <<>> /\ pid = execLog[1].result)
    /\ (pc = "release" /\ executable) =>
          /\ Len(execLog) = 1
          /\ execLog[1].path = Argv(0)
          /\ execLog[1].argv = command_args
          /\ IF execLog[1].result = -1
             THEN /\ waitLog = <<>>
                  /\ out = <<Lit("YehudaSH: execution of "), Argv0Printed,
                             Lit("has failed\\n")>>
             ELSE /\ Len(waitLog) = 1
                  /\ IF waitLog[1].result = -1
                     THEN out = <<Lit("Failed to retrieve the exit code of "),
                                  Argv0Printed, Lit("\\n")>>
                     ELSE /\ Len(out) = 4
                          /\ out[1] = Argv0Printed
                          /\ out[2] = Lit(" has exited with exit code ")
                          /\ out[3].lit = "" /\ out[3].str # <<>>
                          /\ out[4] = Lit("\\n")

\* C5 witness: handle_executable has returned after a waitpid that
\* succeeded
C5_Witness ==
    /\ pc = "release"
    /\ Len(waitLog) = 1
    /\ waitLog[1].result = 0

\* C6: at most one child of the shell has not been waited for, and while
\* there is one the shell is at its waitpid call and its next step is the
\* return of that call: no console read and no exec comes in between.
C6_OneForegroundChild ==
    /\ [](/\ Cardinality(children) <= 1
          /\ children # {} => (pc = "he_wait" /\ children = {pid}))
    /\ [][children # {} =>
             /\ children' = {}
             /\ typed' = typed
             /\ execLog' = execLog
             /\ Len(waitLog') = Len(waitLog) + 1]_vars

\* C6 witness: a child exists that the shell has not waited for
C6_Witness == children # {}

\* C7 (as claimed): the loop of main has no exit and nothing puts the shell
\* in a terminal state, so from every state it reaches the prompt again:
\* the shell's process never stops.
C7_NoTerminalState == pc # "crashed"

\* C8: handle_builtin, given a non-null first word: for "cd" without a
\* second word it writes the missing-target message and calls chdir not at
\* all; for "cd" with a second word it calls chdir once, with argv[1], and
\* writes the message that names argv[1] exactly when chdir returned -1;
\* for every other first word it writes the "command not found" message
\* that names argv[0] and calls chdir not at all.
C8_BuiltinDispatch ==
    (pc = "release" /\ ~executable /\ Argv(0) # NULL) =>
        IF Word(0) = <<CH_c, CH_d>>
        THEN IF Argv(1) = NULL
             THEN /\ chdirLog = <<>>
                  /\ out = <<Lit("YehudaSH: cd: No target parameter")>>
             ELSE /\ Len(chdirLog) = 1
                  /\ chdirLog[1].path = Argv(1)
                  /\ out = IF chdirLog[1].result = -1
                           THEN <<Lit("YehudaSH: cd: "), Str(Word(1)),
                                  Lit(": No such file or directory")>>
                           ELSE <<>>
        ELSE /\ chdirLog = <<>>
             /\ out = <<Lit("YehudaSH: "), Str(Word(0)),
                        Lit(": command not found")>>

\* C8 witness: "cd" with a target that chdir refused
C8_Witness ==
    /\ pc = "release"
    /\ chdirLog # <<>>
    /\ chdirLog[1].result = -1

\* C9 (as claimed): given bytes other than the newline and then a newline,
\* with no failure, getline returns the bytes kept, where a backspace
\* removes the last byte kept; the line holds no backspace.
C9_LineIsKeptBytes ==
    (pc = "parse" /\ ~zeroRead) =>
        /\ typed # <<>>
        /\ typed[Len(typed)] = NL
        /\ Line = Kept(SubSeq(typed, 1, Len(typed) - 1))
        /\ \A i \in 1..Len(Line) : Line[i] # BS

\* C10 (as claimed): the buffer getline returns holds a terminator at an
\* index inside its capacity and no newline before it.
C10_TerminatedNoNewline ==
    pc = "parse" =>
        /\ command # NULL
        /\ \E i \in DOMAIN heap[command].data :
              /\ heap[command].data[i] = NUL
              /\ \A j \in 1..(i - 1) : heap[command].data[j] # NL

\* C11 (as claimed): for every exit code the shell converts, int_to_string
\* stores to buffer[0] .. buffer[10] only, so the 11 bytes of
\* exitcode_buffer in handle_executable are not overrun.
C11_IntToStringFits ==
    \A i \in DOMAIN waitLog :
        waitLog[i].result = 0 =>
            int_to_string_end(waitLog[i].exitcode) <= MAX_INT_STRLEN - 1

\* C12 (as claimed): every call of the shell, of getline and of the helper
\* routines that can fail has its result compared with the failure value
\* by its caller: no call fails with the caller going on as if it had not.
C12_FailuresChecked == ignored = {}

\* the line is empty or holds spaces only
Blank(s) == \A i \in 1..Len(s) : s[i] = SP

\* C15: for the empty line and for every line of spaces only, when the
\* allocation of the array succeeds, parse_command returns a non-null array
\* that holds the terminating NULL only, in slot 0, and allocates no word.
C15_BlankLineEmptyList ==
    (pc = "classify" /\ Blank(Line)) =>
        /\ command_args # NULL
        /\ heap[command_args].nfree = 0
        /\ heap[command_args].data = <<NULL>>
        /\ \A b \in DOMAIN heap : heap[b].kind # "word"

\* C15 witness: parse_command has returned for a line of two spaces
C15_Witness ==
    /\ pc = "classify"
    /\ Len(Line) = 2
    /\ Blank(Line)

\* the words of the list parse_command returned all have a character
NoEmptyWord ==
    \A k \in DOMAIN heap[command_args].data :
        heap[command_args].data[k] # NULL =>
            Len(CStr(heap[heap[command_args].data[k]].data)) > 0

\* C16 (as claimed): for every line of length at least one the Word List
\* parse_command returns has at least one element, and no element of a
\* returned Word List has length zero.
C16_NonEmptyLineHasWords ==
    pc = "classify" =>
        /\ Len(Line) >= 1 => Argv(0) # NULL
        /\ NoEmptyWord

\* C16 (amended): for every line that holds a character other than a space
\* the Word List parse_command returns has at least one element, and no
\* element of a returned Word List has length zero.
C16_NonBlankLineHasWords ==
    pc = "classify" =>
        /\ ~Blank(Line) => Argv(0) # NULL
        /\ NoEmptyWord

\* C16 witness: a parsed line that holds a word between two spaces
C16_Witness ==
    /\ pc = "classify"
    /\ Len(Line) = 3
    /\ Line[1] = SP
    /\ Line[2] # SP
    /\ Line[3] = SP

\* C17: is_executable is TRUE for every word made of "./", "../" or "/"
\* and at least one more character, and FALSE for every non-empty word
\* whose first character is neither '.' nor '/'.
C17_PrefixedWordsExecutable ==
    (pc \in {"he_exec", "builtin"} /\ Argv(0) # NULL) =>
        /\ (\E p \in {<<DOT, SLASH>>, <<DOT, DOT, SLASH>>, <<SLASH>>} :
               /\ Len(Word(0)) > Len(p)
               /\ SubSeq(Word(0), 1, Len(p)) = p) => executable
        /\ Word(0)[1] \notin {DOT, SLASH} => ~executable

\* C17 witness: the word "../c" was classified
C17_Witness ==
    /\ pc = "he_exec"
    /\ Argv(0) # NULL
    /\ Word(0) = <<DOT, DOT, SLASH, CH_c>>

\* C18 (as claimed): is_executable, strcmp in handle_builtin and exec are
\* never called with a NULL command word: past the call of is_executable
\* the first word of the list is not NULL.
C18_FirstWordNotNull ==
    pc \in {"he_exec", "he_wait", "builtin", "crashed"} => Argv(0) # NULL

\* C19 (as claimed): the index current - bytes_read that the loop test of
\* getline inspects, and that the terminator is stored at, lies inside the
\* buffer: 0 <= index < capacity.
C19_IndexInBuffer ==
    (pc \in {"getline", "parse"} /\ gl.buffer # NULL) =>
        /\ 0 <= getline_index(gl.current, gl.bytes_read)
        /\ getline_index(gl.current, gl.bytes_read) < gl.len

\* C20 (as claimed): when getline returns NULL, after a read returned -1
\* or after growing the buffer failed, no buffer it allocated in that call
\* is still allocated.
C20_NullReturnFreesBuffer ==
    (Returned /\ failedAt = "getline") =>
        \A b \in DOMAIN heap : heap[b].kind = "line" => heap[b].nfree > 0

\* the calls that take a handle
HandleCalls == {"fstat", "read", "write", "readdir", "waitpid"}

\* C13 (as claimed): no utility passes the failure value -1 of a failed
\* open, creat or exec as the handle of a later fstat, read, write, readdir
\* or waitpid call.
C13_NoFailedHandleUsed ==
    \A i \in DOMAIN calls :
        calls[i].name \in HandleCalls => calls[i].fd # -1

\* the utilities that need an operand
NeedOperand == {"cat", "edit", "touch", "mkdir", "rm", "rmdir"}

\* C14 (as claimed): a utility that needs an operand and is started without
\* one writes a usage message, returns a result other than zero and issues
\* no file-system call.
C14_MissingOperandRefused ==
    (prog \in NeedOperand /\ argc < 2) =>
        /\ uout # <<>>
        /\ status = "1"
        /\ calls = <<>>

\* C21 (as claimed): getline returns a line only in an iteration in which
\* read delivered a newline byte; a read of 0 bytes is retried and never
\* makes getline return.  (The iterations whose loop test reads the byte
\* before the buffer are those of claim C19 and are left aside here.)
C21_ReturnsAtNewlineOnly ==
    (pc = "parse" /\ getline_index(gl.current, gl.bytes_read) >= 0) =>
        /\ gl.bytes_read = 1
        /\ typed # <<>>
        /\ typed[Len(typed)] = NL

\* n is 1, 2, 4, 8, ...
RECURSIVE IsDoubling(_)
IsDoubling(n) == n = 1 \/ (n > 1 /\ n % 2 = 0 /\ IsDoubling(n \div 2))

\* C22: in getline the capacity is 1 before the first allocation and 2, 4,
\* 8, ... after it; an iteration changes it only by doubling it, and does so
\* exactly when it starts with the cursor at capacity - 1; at the read of
\* every iteration the cursor is at most capacity - 2.
C22_CapacityDoubles ==
    /\ [](pc \in {"getline", "parse"} =>
             /\ IsDoubling(gl.len)
             /\ gl.buffer # NULL => gl.len >= 2
             /\ gl.current <= gl.len - 1)
    /\ [][pc = "getline" =>
             /\ gl'.len \in {gl.len, 2 * gl.len}
             /\ gl'.len = 2 * gl.len <=> gl.current = gl.len - 1
             /\ gl.current <= gl'.len - 2]_vars

\* C22 witness: the cursor was lowered by a backspace after the capacity
\* was doubled to 8
C22_Witness ==
    /\ pc = "getline"
    /\ gl.len = 8
    /\ gl.current = 2

\* C23: for each byte getline reads: a backspace at a cursor above 0 writes
\* the three bytes backspace, space, backspace and lowers the cursor by
\* one; a backspace at cursor 0 writes nothing and leaves the cursor at 0;
\* every other byte, the newline included, is written once and raises the
\* cursor by one.
C23_EchoAndCursor ==
    [][(pc = "getline" /\ Len(typed') = Len(typed) + 1) =>
          LET byte == typed'[Len(typed')] IN
          IF byte = BS
          THEN IF gl.current > 0
               THEN /\ out' = Append(out, Str(<<BS, SP, BS>>))
                    /\ gl'.current = gl.current - 1
               ELSE /\ out' = out
                    /\ gl'.current = 0
          ELSE /\ out' = Append(out, Str(<<byte>>))
               /\ gl'.current = gl.current + 1]_vars

\* C23 witness: a byte and then a backspace were read
C23_Witness ==
    /\ pc = "getline"
    /\ typed = <<CH_c, BS>>
    /\ gl.current = 0

\* the steps that can follow each step of an iteration of main
Follows(p) ==
    CASE p = "main" -> {"getline", "returned"}
      [] p = "getline" -> {"getline", "parse", "returned"}
      [] p = "parse" -> {"classify", "returned", "undefined"}
      [] p = "classify" -> {"he_exec", "builtin", "crashed"}
      [] p = "he_exec" -> {"he_wait", "release"}
      [] p = "he_wait" -> {"release", "undefined"}
      [] p = "builtin" -> {"release"}
      [] p = "release" -> {"returned"}
      [] p = "returned" -> {"main"}
      [] OTHER -> {}

\* C24: the steps of an iteration follow one another in the order prompt,
\* read, tokenize, classify, dispatch, release; a handler runs only after
\* getline and parse_command succeeded, and at the release step exactly
\* one handler has run; exec is called only when is_executable returned
\* TRUE, so a builtin creates no child; an iteration in which the read or
\* the tokenizing failed calls neither exec nor chdir.
C24_StepsInOrder ==
    /\ [][pc' \in Follows(pc)]_vars
    /\ [](/\ pc \in {"he_exec", "he_wait", "builtin", "release"} =>
                (failedAt = "none" /\ command_args # NULL)
          /\ pc \in {"he_exec", "he_wait"} => executable
          /\ pc = "builtin" => ~executable
          /\ execLog # <<>> => executable
          /\ ~executable => children = {}
          /\ pc = "release" =>
                IF executable
                THEN Len(execLog) = 1 /\ chdirLog = <<>>
                ELSE execLog = <<>> /\ (out # <<>> \/ chdirLog # <<>>)
          /\ failedAt # "none" =>
                (execLog = <<>> /\ waitLog = <<>> /\ chdirLog = <<>>))

\* C24 witness: handle_builtin has run chdir, which succeeded
C24_Witness ==
    /\ pc = "release"
    /\ ~executable
    /\ chdirLog # <<>>
    /\ chdirLog[1].result = 0

\* C25: no block is freed twice; every pointer the shell holds (the line,
\* the list array, the words, getline's buffer) points to a block that is
\* allocated; the line is freed, once, before a handler runs and the shell
\* keeps no pointer to it; no word is the line buffer.
C25_NoDoubleFreeNoUseAfterFree ==
    /\ \A b \in DOMAIN heap : heap[b].nfree <= 1
    /\ command # NULL => heap[command].nfree = 0
    /\ (pc = "getline" /\ gl.buffer # NULL) => heap[gl.buffer].nfree = 0
    /\ command_args # NULL =>
          /\ heap[command_args].nfree = 0
          /\ \A k \in DOMAIN heap[command_args].data :
                LET w == heap[command_args].data[k] IN
                w # NULL =>
                    /\ heap[w].nfree = 0
                    /\ heap[w].kind = "word"
                    /\ w # command
    /\ pc \in {"he_exec", "he_wait", "builtin", "release"} =>
          /\ command = NULL
          /\ \A b \in DOMAIN heap :
                heap[b].kind = "line" => heap[b].nfree = 1

\* C25 witness: a handler has run on a list of two words
C25_Witness ==
    /\ pc = "release"
    /\ Argv(0) # NULL
    /\ Argv(1) # NULL

\* C26: handle_executable and handle_builtin change no block of the heap
\* and not the list pointer, whatever exec, waitpid and chdir return; a
\* word or the list array that parse_command returned is freed only by the
\* release loop.
C26_HandlersKeepWordList ==
    /\ [][(pc \in {"he_exec", "he_wait", "builtin"}) =>
             (heap' = heap /\ command_args' = command_args)]_vars
    /\ [][(\E b \in DOMAIN heap :
               /\ heap[b].kind \in {"word", "array"}
               /\ b \in DOMAIN heap'
               /\ heap'[b].nfree > heap[b].nfree) =>
             pc = "release"]_vars

\* C26 witness: handle_executable has returned after waitpid failed
C26_Witness ==
    /\ pc = "release"
    /\ Len(waitLog) = 1
    /\ waitLog[1].result = -1
    /\ Live(heap) # {}

\* the decimal digits of a negative number, the first one first
RECURSIVE NegDigits(_)
NegDigits(n) ==
    (IF c_div(n, 10) = 0 THEN <<>> ELSE NegDigits(c_div(n, 10)))
        \o <<CH_0 - c_rem(n, 10)>>

\* the decimal digits of a positive number, the first one first
RECURSIVE PosDigits(_)
PosDigits(n) ==
    (IF n \div 10 = 0 THEN <<>> ELSE PosDigits(n \div 10))
        \o <<CH_0 + (n % 10)>>

\* the canonical decimal representation of num
Canonical(num) ==
    IF num = 0 THEN <<CH_0>>
    ELSE IF num < 0 THEN <<MINUS>> \o NegDigits(num)
    ELSE PosDigits(num)

\* C27 (as claimed): for every exit code, the least int included, the
\* string int_to_string leaves in the buffer, which handle_executable
\* prints, is the canonical decimal representation of the number.
C27_CanonicalDecimal ==
    (pc = "release" /\ Len(waitLog) = 1 /\ waitLog[1].result = 0) =>
        out[3] = Str(Canonical(waitLog[1].exitcode))

\* the identifiers exec returned, in the order of the calls
CreatedInOrder ==
    SelectSeq([k \in 1..Len(mp_execLog) |-> mp_execLog[k].result],
              LAMBDA r : r # -1)

\* the identifiers waitpid was called with, in the order of the calls
WaitedInOrder == [k \in 1..Len(mp_waitLog) |-> mp_waitLog[k].pid]

\* C28 (as claimed): when main of the multiprocessing program has returned,
\* every child it created has been waited on exactly once, in the order of
\* creation, also when the creation of a later child failed; and no
\* waitpid call is made before the last exec call.
C28_EveryChildWaited ==
    /\ (mp_pc = "create") => mp_waitLog = <<>>
    /\ (mp_pc = "returned") => WaitedInOrder = CreatedInOrder

\* the register image the kernel expects for the call in g_call
Expected ==
    sys_syscall(g_call.code, g_call.args[1], g_call.args[2], g_call.args[3],
                g_call.args[4], g_call.args[5], g_call.args[6])

\* C29 (as claimed): for every operation code and arguments both gateways
\* hand the kernel the same register image, the code in rax and arg0..arg5
\* in rdi, rsi, rdx, r10, r8, r9.
C29_SameRegisterImage ==
    (g_op # "none") => (g_sys = Expected /\ g_old = g_sys)

\* the index of the terminator of a string
Terminator(str) == Len(CStr(str))

\* C30: is_executable is pure.  The step that calls it with a word that is
\* not NULL makes no kernel call and no write, leaves the word and the word
\* list as they were, yields the result that a second call on the same word
\* yields, and reads no character of the word or of an entry of the prefix
\* table beyond its terminator.
C30_IsExecutablePure ==
    [][(pc = "classify" /\ Argv(0) # NULL) =>
          /\ out' = out
          /\ execLog' = execLog /\ waitLog' = waitLog /\ chdirLog' = chdirLog
          /\ children' = children /\ ignored' = ignored
          /\ command_args' = command_args
          /\ heap'[command_args] = heap[command_args]
          /\ heap'[Argv(0)] = heap[Argv(0)]
          /\ executable' = is_executable(heap[Argv(0)].data)
          /\ executable' = is_executable(heap'[Argv(0)].data)
          /\ \A n \in 1..Len(EXECUTABLE_PATH_START) :
                /\ is_executable_cmd_reads(EXECUTABLE_PATH_START[n],
                       heap[Argv(0)].data, 0, TRUE)
                       \subseteq 0..Terminator(heap[Argv(0)].data)
                /\ is_executable_path_reads(EXECUTABLE_PATH_START[n],
                       heap[Argv(0)].data, 0, TRUE)
                       \subseteq 0..Terminator(EXECUTABLE_PATH_START[n])
                /\ Terminator(heap[Argv(0)].data) < Len(heap[Argv(0)].data)
      ]_vars

\* C30 witness: the word "." was classified; it ends inside the prefix "./"
C30_Witness ==
    /\ pc = "builtin"
    /\ Argv(0) # NULL
    /\ Word(0) = <<DOT>>
    /\ ~executable

====
